---- MODULE Spec2Model ----
(***************************************************************************)
(* PO / SO reconciliation for valve components: the two processors of the  *)
(* repository, DocumentProcessor (src/script.py) and ValveProcessor        *)
(* (src/script2.py).  Text is modelled as TLA+ strings (sequences of       *)
(* characters); the regular expressions of the source are translated to    *)
(* pattern trees and run by a backtracking matcher with Python's           *)
(* leftmost, greedy, first-alternative-first priority.                     *)
(***************************************************************************)
EXTENDS Integers, Sequences, FiniteSets, TLC

VARIABLES
    prog,            \* which processor main() runs: src/script.py or src/script2.py
    pc,              \* position of main(): which call comes next
    code_mappings,   \* DocumentProcessor.code_mappings: key -> set of codes
    erp_data,        \* the catalog rows read from the Excel file
    files,           \* the rest of os.listdir(pdf_folder) still to visit
    processed_files, \* process_pdfs' count of files processed
    items,           \* self.items: the accumulated ValveItem records
    cur,             \* the file visited last: its name, its PDF, how many items it added
    analysis,        \* the analysis being built by the analyzer
    arg,             \* argument of the pure function under check
    ret              \* what the pure function returned

vars == <<prog, pc, code_mappings, erp_data, files, processed_files, items, cur,
          analysis, arg, ret>>

(***************************************************************************)
(* Characters and Python's str helpers.                                    *)
(***************************************************************************)
Ch(s, i) == SubSeq(s, i, i)

UpperLetters == "ABCDEFGHIJKLMNOPQRSTUVWXYZ"
LowerLetters == "abcdefghijklmnopqrstuvwxyz"
DigitChars == {"0", "1", "2", "3", "4", "5", "6", "7", "8", "9"}
UpperSet == {Ch(UpperLetters, k) : k \in 1..Len(UpperLetters)}
LowerSet == {Ch(LowerLetters, k) : k \in 1..Len(LowerLetters)}
\* what Python's \s and str.strip() / str.split() treat as whitespace
SpaceChars == {" ", "\t", "\n", "\r", "\f"}
\* \w of the re module
WordChars == UpperSet \cup LowerSet \cup DigitChars \cup {"_"}

UpperCh(c) ==
    IF c \in LowerSet
    THEN Ch(UpperLetters, CHOOSE k \in 1..Len(LowerLetters) : Ch(LowerLetters, k) = c)
    ELSE c

LowerCh(c) ==
    IF c \in UpperSet
    THEN Ch(LowerLetters, CHOOSE k \in 1..Len(UpperLetters) : Ch(UpperLetters, k) = c)
    ELSE c

Min(S) == CHOOSE x \in S : \A y \in S : x <= y

RECURSIVE StrUpper(_)
\* str.upper(), character by character (the string is halved to keep the
\* evaluation shallow)
StrUpper(s) ==
    IF Len(s) = 0 THEN ""
    ELSE IF Len(s) = 1 THEN UpperCh(s)
    ELSE StrUpper(SubSeq(s, 1, Len(s) \div 2)) \o StrUpper(SubSeq(s, Len(s) \div 2 + 1, Len(s)))

RECURSIVE StrLower(_)
\* str.lower()
StrLower(s) ==
    IF Len(s) = 0 THEN ""
    ELSE IF Len(s) = 1 THEN LowerCh(s)
    ELSE StrLower(SubSeq(s, 1, Len(s) \div 2)) \o StrLower(SubSeq(s, Len(s) \div 2 + 1, Len(s)))

\* str.lstrip(): from the first character that is not whitespace
LStrip(s) ==
    SubSeq(s, Min({p \in 1..Len(s) + 1 : p = Len(s) + 1 \/ Ch(s, p) \notin SpaceChars}),
           Len(s))

\* str.rstrip(): to the last character that is not whitespace
RStrip(s) ==
    SubSeq(s, 1,
           0 - Min({0 - p : p \in {q \in 0..Len(s) : q = 0 \/ Ch(s, q) \notin SpaceChars}}))

\* str.strip()
StrStrip(s) == LStrip(RStrip(s))

\* least position >= i at which sub occurs in s, 0 when there is none
StrFind(s, sub, i) ==
    LET hits == {p \in i..(Len(s) - Len(sub) + 1) : SubSeq(s, p, p + Len(sub) - 1) = sub}
    IN  IF hits = {} THEN 0 ELSE Min(hits)

\* Python's `sub in s`
StrIn(sub, s) == StrFind(s, sub, 1) # 0

RECURSIVE StrReplace(_, _, _)
\* str.replace(old, new), old non-empty
StrReplace(s, old, new) ==
    LET p == StrFind(s, old, 1)
    IN  IF p = 0 THEN s
        ELSE SubSeq(s, 1, p - 1) \o new
             \o StrReplace(SubSeq(s, p + Len(old), Len(s)), old, new)

(***************************************************************************)
(* Pattern trees: the constructors of the regular expressions used in the  *)
(* source.  hi = -1 stands for an unbounded repetition.                    *)
(***************************************************************************)
Set(cs) == [t |-> "set", cs |-> cs]
NotSet(cs) == [t |-> "not", cs |-> cs]
Cat(rs) == [t |-> "seq", rs |-> rs]
Alt(rs) == [t |-> "alt", rs |-> rs]
Rep(r, lo, hi) == [t |-> "rep", r |-> r, lo |-> lo, hi |-> hi]
Opt(r) == Rep(r, 0, 1)
Plus(r) == Rep(r, 1, -1)
Star(r) == Rep(r, 0, -1)
Grp(r) == [t |-> "grp", r |-> r]
Bol == [t |-> "bol"]
Eol == [t |-> "eol"]
WordB == [t |-> "wb"]
LookBehind(r, w) == [t |-> "lb", r |-> r, w |-> w]
LookAhead(r) == [t |-> "la", r |-> r]

\* a literal string, case-sensitive
Lit(str) == Cat([k \in 1..Len(str) |-> Set({Ch(str, k)})])
\* a literal string under re.IGNORECASE
ILit(str) == Cat([k \in 1..Len(str) |-> Set({UpperCh(Ch(str, k)), LowerCh(Ch(str, k))})])
Digit == Set(DigitChars)
Space == Set(SpaceChars)
\* [A-Z] under re.IGNORECASE
ILetter == Set(UpperSet \cup LowerSet)

NoCap == <<0, 0>>

RECURSIVE ReMatch(_, _, _, _)
RECURSIVE ReThen(_, _, _, _)

\* every way r matches s from position i, in backtracking priority order:
\* a sequence of <<end position, capture of group 1>>
ReMatch(r, s, i, cap) ==
    CASE r.t = "set" ->
            IF i <= Len(s) /\ Ch(s, i) \in r.cs THEN << <<i + 1, cap>> >> ELSE << >>
      [] r.t = "not" ->
            IF i <= Len(s) /\ Ch(s, i) \notin r.cs THEN << <<i + 1, cap>> >> ELSE << >>
      [] r.t = "seq" ->
            IF Len(r.rs) = 0 THEN << <<i, cap>> >>
            ELSE ReThen(ReMatch(r.rs[1], s, i, cap), 1, Cat(Tail(r.rs)), s)
      [] r.t = "alt" ->
            IF Len(r.rs) = 0 THEN << >>
            ELSE ReMatch(r.rs[1], s, i, cap) \o ReMatch(Alt(Tail(r.rs)), s, i, cap)
      [] r.t = "rep" /\ r.r.t \in {"set", "not"} ->
            \* a run of single characters: the longest run first
            LET ok(p) == (Ch(s, p) \in r.r.cs) = (r.r.t = "set")
                stop == Min({p \in i..Len(s) + 1 : p = Len(s) + 1 \/ ~ok(p)})
                n == IF r.hi >= 0 /\ stop - i > r.hi THEN r.hi ELSE stop - i
            IN  IF n < r.lo THEN << >>
                ELSE [k \in 1..(n - r.lo + 1) |-> <<i + n - k + 1, cap>>]
      [] r.t = "rep" ->
            LET more == IF r.hi = 0 THEN << >>
                        ELSE ReThen(SelectSeq(ReMatch(r.r, s, i, cap), LAMBDA m : m[1] > i),
                                    1,
                                    Rep(r.r,
                                        IF r.lo > 0 THEN r.lo - 1 ELSE 0,
                                        IF r.hi > 0 THEN r.hi - 1 ELSE r.hi),
                                    s)
            IN  more \o (IF r.lo = 0 THEN << <<i, cap>> >> ELSE << >>)
      [] r.t = "grp" ->
            LET ms == ReMatch(r.r, s, i, cap)
            IN  [k \in 1..Len(ms) |-> <<ms[k][1], <<i, ms[k][1]>>>>]
      [] r.t = "bol" -> IF i = 1 THEN << <<i, cap>> >> ELSE << >>
      [] r.t = "eol" -> IF i = Len(s) + 1 THEN << <<i, cap>> >> ELSE << >>
      [] r.t = "wb" ->
            LET before == i > 1 /\ Ch(s, i - 1) \in WordChars
                after == i <= Len(s) /\ Ch(s, i) \in WordChars
            IN  IF before # after THEN << <<i, cap>> >> ELSE << >>
      [] r.t = "lb" ->
            IF /\ i - r.w >= 1
               /\ \E k \in 1..Len(ReMatch(r.r, s, i - r.w, cap)) :
                      ReMatch(r.r, s, i - r.w, cap)[k][1] = i
            THEN << <<i, cap>> >> ELSE << >>
      [] r.t = "la" ->
            IF Len(ReMatch(r.r, s, i, cap)) > 0 THEN << <<i, cap>> >> ELSE << >>

\* continue each match ms[k..] of a prefix with r2
ReThen(ms, k, r2, s) ==
    IF k > Len(ms) THEN << >>
    ELSE ReMatch(r2, s, ms[k][1], ms[k][2]) \o ReThen(ms, k + 1, r2, s)

NoMatch == <<0, 0, NoCap>>

\* re.search from position i: <<start, end, capture>> of the leftmost match
ReSearchFrom(r, s, i) ==
    LET At(p) == ReMatch(r, s, p, NoCap)
        First(p, ms) == <<p, ms[1][1], ms[1][2]>>
        Leftmost(starts) ==
            IF starts = {} THEN NoMatch ELSE First(Min(starts), At(Min(starts)))
    IN  Leftmost({p \in i..Len(s) + 1 : Len(At(p)) > 0})

\* re.search(r, s)
ReSearch(r, s) == ReSearchFrom(r, s, 1)
Found(m) == m # NoMatch
\* match.group(0)
Group0(s, m) == SubSeq(s, m[1], m[2] - 1)
\* match.group(1)
Group1(s, m) == SubSeq(s, m[3][1], m[3][2] - 1)

RECURSIVE ReFindIter(_, _, _)
\* re.finditer: the non-overlapping matches from position i, left to right
ReFindIter(r, s, i) ==
    LET Rest(m) ==
            IF ~Found(m) THEN << >>
            ELSE <<m>> \o ReFindIter(r, s, IF m[2] = m[1] THEN m[2] + 1 ELSE m[2])
    IN  Rest(ReSearchFrom(r, s, i))

RECURSIVE ReSubFrom(_, _, _, _)
\* re.sub from position i: the text up to the next match, repl, and so on
ReSubFrom(r, repl, s, i) ==
    LET Rest(m) ==
            IF ~Found(m) THEN SubSeq(s, i, Len(s))
            ELSE SubSeq(s, i, m[1] - 1) \o repl
                 \o (IF m[2] = m[1]
                     THEN SubSeq(s, m[1], m[1]) \o ReSubFrom(r, repl, s, m[2] + 1)
                     ELSE ReSubFrom(r, repl, s, m[2]))
    IN  Rest(ReSearchFrom(r, s, i))

\* re.sub(r, repl, s)
ReSub(r, repl, s) == ReSubFrom(r, repl, s, 1)

RECURSIVE StrJoin(_, _)
\* sep.join(parts)
StrJoin(parts, sep) ==
    IF Len(parts) = 0 THEN ""
    ELSE IF Len(parts) = 1 THEN parts[1]
    ELSE parts[1] \o sep \o StrJoin(Tail(parts), sep)

\* s.split(): the maximal runs of characters that are not whitespace
StrWords(s) ==
    LET Groups(ms) == [k \in 1..Len(ms) |-> Group0(s, ms[k])]
    IN  Groups(ReFindIter(Plus(NotSet(SpaceChars)), s, 1))

\* ' '.join(line.split())
JoinSplit(s) == StrJoin(StrWords(s), " ")

(***************************************************************************)
(* DocumentProcessor.normalize_code                                        *)
(***************************************************************************)
\* r'\[D\]$'
ReBracketD == Cat(<<Lit("[D]"), Eol>>)
\* r'\s+'
ReSpaces == Plus(Space)
\* r'MR$'
ReMrEnd == Cat(<<Lit("MR"), Eol>>)
\* r'^\s*(?:VALVE|CHECK)\s+'
RePrefix == Cat(<<Bol, Star(Space), Alt(<<Lit("VALVE"), Lit("CHECK")>>), Plus(Space)>>)

\* the statements of normalize_code, the first innermost
normalize_code(code) ==
    StrStrip(                                   \* code.strip()
      ReSub(RePrefix, "",                       \* re.sub(r'^\s*(?:VALVE|CHECK)\s+', '', code)
        ReSub(ReMrEnd, "",                      \* re.sub(r'MR$', '', code)
          ReSub(ReSpaces, " ",                  \* re.sub(r'\s+', ' ', code)
            ReSub(ReBracketD, "",               \* re.sub(r'\[D\]$', '', code)
              StrUpper(StrStrip(code)))))))     \* code.strip().upper()

(***************************************************************************)
(* DocumentProcessor.extract_codes_from_line (src/script.py)               *)
(***************************************************************************)
\* skip_patterns, each compiled with (?i)
skip_patterns ==
    << ILit("Generated on"),
       Cat(<<ILit("Page "), Plus(Digit), ILit(" of")>>),
       ILit("This is acknowledgement"),
       ILit("Made By"),
       ILit("TOTAL WEIGHT"),
       ILit("Unloading point") >>

\* r'\b9[0-9]{6}\b'
ReProductCode == Cat(<<WordB, Lit("9"), Rep(Digit, 6, 6), WordB>>)
\* r'(?:DP|DPCV)\s*\d{4}\s*MM\s*#\d{2,4}\s*M-\d+[A-Z]?'
ReDpFull ==
    Cat(<<Alt(<<ILit("DP"), ILit("DPCV")>>), Star(Space), Rep(Digit, 4, 4), Star(Space),
          ILit("MM"), Star(Space), Lit("#"), Rep(Digit, 2, 4), Star(Space),
          ILit("M"), Lit("-"), Plus(Digit), Opt(ILetter)>>)
\* r'DP\d{2}\.[A-Z0-9]+\.\d{2}\.[A-Z]{2}\.\d+[A-Z]?'
ReDpTechnical ==
    Cat(<<ILit("DP"), Rep(Digit, 2, 2), Lit("."),
          Plus(Set(UpperSet \cup LowerSet \cup DigitChars)), Lit("."),
          Rep(Digit, 2, 2), Lit("."), Rep(ILetter, 2, 2), Lit("."),
          Plus(Digit), Opt(ILetter)>>)
\* r'CH-\d{4}(?:\s+MR)?'
ReChFormat ==
    Cat(<<ILit("CH"), Lit("-"), Rep(Digit, 4, 4), Opt(Cat(<<Plus(Space), ILit("MR")>>))>>)
\* r'CH[LHS]?-\d{4}'
ReChInfix ==
    Cat(<<ILit("CH"), Opt(Set({"L", "H", "S", "l", "h", "s"})), Lit("-"), Rep(Digit, 4, 4)>>)
\* r'(?:CHL|CHS)-\d{4}'
ReChlChs == Cat(<<Alt(<<ILit("CHL"), ILit("CHS")>>), Lit("-"), Rep(Digit, 4, 4)>>)
\* r'(?<=Marc code:\s)\d+'
ReMarcLook == Cat(<<LookBehind(Cat(<<ILit("Marc code:"), Space>>), 11), Plus(Digit)>>)
\* r'(?<=Item No\.\s)\d{3,4}(?=\s)'
ReItemNo ==
    Cat(<<LookBehind(Cat(<<ILit("Item No."), Space>>), 9), Rep(Digit, 3, 4), LookAhead(Space)>>)

\* the ordered pattern list of extract_codes_from_line
code_patterns ==
    <<ReProductCode, ReDpFull, ReDpTechnical, ReChFormat, ReChInfix, ReChlChs,
      ReMarcLook, ReItemNo>>

\* r'\d{4}'
ReFourDigits == Rep(Digit, 4, 4)
\* r'Marc code:\s*(\d+)', case-sensitive
ReMarcCode == Cat(<<Lit("Marc code:"), Star(Space), Grp(Plus(Digit))>>)

\* the codes one match of a pattern adds to the result set (the body of the
\* inner for loop)
CodesOfMatch(clean_line, m) ==
    LET Derived(code, num) ==
            \* if 'CH-' in code: the DP and DPCV forms of its 4-digit run
            IF StrIn("CH-", code) /\ Found(num)
            THEN {"DP " \o Group0(code, num) \o " MM",
                  "DPCV " \o Group0(code, num) \o " MM"}
            ELSE {}
        Marc(marc) == IF Found(marc) THEN {Group1(clean_line, marc)} ELSE {}
        Added(code) ==
            {code} \cup Derived(code, ReSearch(ReFourDigits, code))
                   \cup Marc(ReSearch(ReMarcCode, clean_line))
        OfRaw(raw) ==
            IF Len(raw) = 0 THEN {} ELSE Added(StrUpper(ReSub(ReSpaces, " ", raw)))
    IN  OfRaw(StrStrip(Group0(clean_line, m)))

\* the codes all matches of one pattern add
CodesOfPattern(clean_line, pattern) ==
    LET OfMatches(ms) == UNION {CodesOfMatch(clean_line, ms[k]) : k \in 1..Len(ms)}
    IN  OfMatches(ReFindIter(pattern, clean_line, 1))

extract_codes_from_line(line) ==
    LET OfClean(clean_line) ==
            UNION {CodesOfPattern(clean_line, code_patterns[k]) :
                       k \in 1..Len(code_patterns)}
    IN  IF \E k \in 1..Len(skip_patterns) : Found(ReSearch(skip_patterns[k], line))
        THEN {}
        ELSE OfClean(JoinSplit(line))

(***************************************************************************)
(* ValveProcessor.extract_codes_from_line (src/script2.py)                 *)
(***************************************************************************)
skip_words2 == <<"DOCUSIGN", "PAGE", "GENERATED">>

code_patterns2 == <<ReDpFull, ReChFormat, ReDpTechnical, ReProductCode>>

CodesOfPattern2(line, pattern) ==
    LET OfMatches(ms) == {StrUpper(StrStrip(Group0(line, ms[k]))) : k \in 1..Len(ms)}
    IN  OfMatches(ReFindIter(pattern, line, 1))

extract_codes_from_line2(line) ==
    IF \E k \in 1..Len(skip_words2) : StrIn(skip_words2[k], StrUpper(line))
    THEN {}
    ELSE UNION {CodesOfPattern2(line, code_patterns2[k]) : k \in 1..Len(code_patterns2)}

(***************************************************************************)
(* extract_quantity_and_price of both processors                           *)
(***************************************************************************)
\* [\d,]+(?:\.\d{2})?
ReAmountOpt ==
    Cat(<<Plus(Set(DigitChars \cup {","})), Opt(Cat(<<Lit("."), Rep(Digit, 2, 2)>>))>>)
\* [\d,]+\.\d{2}
ReAmount == Cat(<<Plus(Set(DigitChars \cup {","})), Lit("."), Rep(Digit, 2, 2)>>)
\* \s*[:=]?\s*(\d+)
ReLabelledCount ==
    Cat(<<Star(Space), Opt(Set({":", "="})), Star(Space), Grp(Plus(Digit))>>)

\* src/script.py qty_patterns, searched with re.IGNORECASE
qty_patterns ==
    << Cat(<<ILit("QTY"), ReLabelledCount>>),
       Cat(<<ILit("Quantity"), ReLabelledCount>>),
       Cat(<<Space, Grp(Plus(Digit)), Star(Space),
             Alt(<<ILit("NOS"), ILit("PCS"), ILit("PIECES"), ILit("EA"), ILit("NR")>>)>>),
       Cat(<<Bol, Star(Space), Grp(Plus(Digit)), Star(Space), Eol>>),
       Cat(<<ILit("Quantity"), Plus(Space), Grp(Plus(Digit)), Plus(Space), ILit("UM")>>),
       Cat(<<LookBehind(Space, 1), Grp(Plus(Digit)),
             LookAhead(Cat(<<Plus(Space), Alt(<<ILit("NR"), ILit("EA")>>)>>))>>),
       Cat(<<LookBehind(Space, 1), Grp(Plus(Digit)),
             LookAhead(Cat(<<Plus(Space),
                             Alt(<<ILit("USD"), Cat(<<ILit("USD"), Plus(Space)>>)>>)>>))>>) >>

\* src/script.py price_patterns, searched with re.IGNORECASE
price_patterns ==
    << Cat(<<ILit("USD"), Star(Space), Grp(ReAmountOpt)>>),
       Cat(<<Lit("$"), Star(Space), Grp(ReAmountOpt)>>),
       Cat(<<Alt(<<ILit("Price"), ILit("PRICE")>>), Star(Set({":"} \cup SpaceChars)),
             Grp(ReAmountOpt)>>),
       Cat(<<Alt(<<ILit("Unit Price"), ILit("UNIT PRICE")>>),
             Star(Set({":"} \cup SpaceChars)), Grp(ReAmountOpt)>>),
       Cat(<<LookBehind(Space, 1), Grp(ReAmount),
             LookAhead(Cat(<<Plus(Space), ILit("USD")>>))>>),
       Cat(<<ILit("Amount"), Plus(Space), ILit("USD"), Plus(Space), Grp(ReAmount)>>),
       Cat(<<LookBehind(ILetter, 1), Plus(Space), Grp(ReAmount), Star(Space), Eol>>) >>

\* src/script2.py: the first four quantity and the first three price patterns
qty_patterns2 == SubSeq(qty_patterns, 1, 4)
price_patterns2 == SubSeq(price_patterns, 1, 3)

DigitValue(c) == CHOOSE d \in 0..9 : Ch("0123456789", d + 1) = c

RECURSIVE IntOfStr(_)
\* int(s) for a string of decimal digits
IntOfStr(s) ==
    IF Len(s) = 0 THEN 0
    ELSE IntOfStr(SubSeq(s, 1, Len(s) - 1)) * 10 + DigitValue(Ch(s, Len(s)))

RECURSIVE StrOfNat(_)
StrOfNat(n) ==
    IF n < 10 THEN Ch("0123456789", n + 1)
    ELSE StrOfNat(n \div 10) \o Ch("0123456789", (n % 10) + 1)

\* str(n)
StrOfInt(n) == IF n < 0 THEN "-" \o StrOfNat(0 - n) ELSE StrOfNat(n)

\* Prices are kept in hundredths: the amounts the patterns capture have no or
\* exactly two decimals, so float(price_str) is cents / 100.
\* float(price_str) raises ValueError exactly when no digit is left
FloatFails(price_str) == Len(price_str) = 0

\* float(price_str) * 100 for digits with an optional .dd
CentsOfStr(price_str) ==
    LET dot == StrFind(price_str, ".", 1)
    IN  IF dot = 0 THEN IntOfStr(price_str) * 100
        ELSE IntOfStr(SubSeq(price_str, 1, dot - 1)) * 100
             + IntOfStr(SubSeq(price_str, dot + 1, Len(price_str)))

\* 0 < qty < 10000
QtyInRange(qty) == 0 < qty /\ qty < 10000
\* 0 < price_val < 1000000, in hundredths
PriceInRange(cents) == 0 < cents /\ cents < 1000000 * 100

RECURSIVE QtyLoopFirstMatch(_, _, _)
\* a quantity loop that stops at the first pattern found, in range or not
QtyLoopFirstMatch(patterns, line, k) ==
    LET Try(m) ==
            IF Found(m)
            THEN IF QtyInRange(IntOfStr(Group1(line, m)))
                 THEN StrOfInt(IntOfStr(Group1(line, m)))
                 ELSE "1"
            ELSE QtyLoopFirstMatch(patterns, line, k + 1)
    IN  IF k > Len(patterns) THEN "1" ELSE Try(ReSearch(patterns[k], line))

RECURSIVE QtyLoop(_, _, _)
\* the quantity loop from pattern k on; "1" is the value set before the loop
QtyLoop(patterns, line, k) ==
    LET Try(m) ==
            IF Found(m) /\ QtyInRange(IntOfStr(Group1(line, m)))
            THEN StrOfInt(IntOfStr(Group1(line, m)))
            ELSE QtyLoop(patterns, line, k + 1)
    IN  IF k > Len(patterns) THEN "1" ELSE Try(ReSearch(patterns[k], line))

RECURSIVE PriceLoop(_, _, _)
\* src/script.py: the price loop from pattern k on; price_val is assigned to
\* price only inside the range test
PriceLoop(patterns, line, k) ==
    LET Try(m, price_str) ==
            IF Found(m) /\ ~FloatFails(price_str) /\ PriceInRange(CentsOfStr(price_str))
            THEN CentsOfStr(price_str)
            ELSE PriceLoop(patterns, line, k + 1)
        Cleaned(m) == Try(m, StrReplace(Group1(line, m), ",", ""))
    IN  IF k > Len(patterns) THEN 0 ELSE Cleaned(ReSearch(patterns[k], line))

RECURSIVE PriceLoop2(_, _, _, _)
\* src/script2.py: price = float(price_str) is assigned before the range test
PriceLoop2(patterns, line, k, price) ==
    LET Try(m, price_str) ==
            IF ~Found(m) \/ FloatFails(price_str)
            THEN PriceLoop2(patterns, line, k + 1, price)
            ELSE IF PriceInRange(CentsOfStr(price_str))
                 THEN CentsOfStr(price_str)
                 ELSE PriceLoop2(patterns, line, k + 1, CentsOfStr(price_str))
        Cleaned(m) == Try(m, StrReplace(Group1(line, m), ",", ""))
    IN  IF k > Len(patterns) THEN price ELSE Cleaned(ReSearch(patterns[k], line))

\* DocumentProcessor.extract_quantity_and_price
extract_quantity_and_price(line) ==
    <<QtyLoop(qty_patterns, line, 1), PriceLoop(price_patterns, line, 1)>>

\* ValveProcessor.extract_quantity_and_price
extract_quantity_and_price2(line) ==
    <<QtyLoop(qty_patterns2, line, 1), PriceLoop2(price_patterns2, line, 1, 0)>>

(***************************************************************************)
(* DocumentProcessor: from a PDF to ValveItem records (src/script.py)      *)
(***************************************************************************)
RECURSIVE StrSplit(_, _)
\* s.split(sep) for a one-character sep
StrSplit(s, sep) ==
    LET p == StrFind(s, sep, 1)
    IN  IF p = 0 THEN <<s>>
        ELSE <<SubSeq(s, 1, p - 1)>> \o StrSplit(SubSeq(s, p + 1, Len(s)), sep)

\* r'(?<=[a-zA-Z])(?=\d)'
ReLetterDigit == Cat(<<LookBehind(ILetter, 1), LookAhead(Digit)>>)

\* the lines one page contributes to pages_text
PageLines(text) ==
    IF Len(text) = 0 THEN << >>
    ELSE LET Stripped(parts) == [k \in 1..Len(parts) |-> StrStrip(parts[k])]
         IN  SelectSeq(
               Stripped(                                \* line.strip() for line in ...
                 StrSplit(                              \* text.split('\n')
                   ReSub(ReLetterDigit, " ",            \* re.sub(r'(?<=[a-zA-Z])(?=\d)', ' ', text)
                     StrReplace(                        \* text.replace('\f', '\n')
                       ReSub(ReSpaces, " ", text),      \* re.sub(r'\s+', ' ', text)
                       "\f", "\n")),
                   "\n")),
               LAMBDA l : Len(l) > 0)                   \* if line.strip()

RECURSIVE AllPageLines(_)
AllPageLines(pages) ==
    IF Len(pages) = 0 THEN << >> ELSE PageLines(pages[1]) \o AllPageLines(Tail(pages))

\* extract_text_from_pdf: pdf is what PdfReader gives for the file, the page
\* texts or a failure to read it; any exception gives ""
extract_text_from_pdf(pdf) ==
    IF ~pdf.readable THEN "" ELSE StrJoin(AllPageLines(pdf.pages), "\n")

po_terms == <<"PURCHASE_ORDER", "PO_", "_PO", "1487633">>

determine_doc_type(filename, content) ==
    LET filename_upper == StrUpper(filename)
        content_upper == StrUpper(content)
    IN  IF StrIn("DSS", filename_upper) \/ StrIn("DATASHEET", filename_upper)
        THEN "DataSheet"
        ELSE IF \E k \in 1..Len(po_terms) : StrIn(po_terms[k], filename_upper)
        THEN "PO"
        ELSE IF StrIn("ACKNOWLEDGMENT", content_upper) \/ StrIn("SALES ORDER", content_upper)
        THEN "SO"
        ELSE IF StrIn("00240030", filename_upper)
        THEN "SO"
        ELSE "SO"

\* r'\(([^)]+)\)'
ReParenthesized == Cat(<<Lit("("), Grp(Plus(NotSet({")"}))), Lit(")")>>)
\* r'^\s*(\d+)'
ReLineNumber == Cat(<<Bol, Star(Space), Grp(Plus(Digit))>>)

\* Optional[ValveItem] is a sequence of at most one record
None == << >>

\* DocumentProcessor.process_line
process_line(line, doc_type) ==
    LET Item(codes, qp, mat_match, num_match) ==
            IF codes = {} THEN None
            ELSE << [ line_number |-> IF Found(num_match) THEN Group1(line, num_match) ELSE "",
                      item_codes |-> codes,
                      quantity |-> qp[1],
                      price |-> qp[2],
                      material_spec |-> IF Found(mat_match)
                                        THEN StrStrip(Group1(line, mat_match)) ELSE "",
                      description |-> StrStrip(line),
                      source_doc |-> doc_type,
                      original_line |-> line ] >>
    IN  IF Len(StrStrip(line)) = 0 THEN None
        ELSE Item(extract_codes_from_line(line),
                  extract_quantity_and_price(line),
                  ReSearch(ReParenthesized, line),
                  ReSearch(ReLineNumber, line))

RECURSIVE ItemsFound(_, _)
\* items_found: the items of the lines, in order
ItemsFound(lines, doc_type) ==
    IF Len(lines) = 0 THEN << >>
    ELSE process_line(lines[1], doc_type) \o ItemsFound(Tail(lines), doc_type)

RECURSIVE UniqueItems(_, _)
\* the duplicate-removal loop: seen_codes holds the code sets retained so far
\* (tuple(sorted(codes)) identifies the set)
UniqueItems(found, seen_codes) ==
    IF Len(found) = 0 THEN << >>
    ELSE LET item == found[1]
         IN  IF item.item_codes # {} /\ item.item_codes \notin seen_codes
             THEN <<item>> \o UniqueItems(Tail(found), seen_codes \cup {item.item_codes})
             ELSE UniqueItems(Tail(found), seen_codes)

(***************************************************************************)
(* ValveProcessor: from a PDF to ValveItem records (src/script2.py)        *)
(***************************************************************************)
material_words == <<"ASTM", "GR.", "WCB", "LCC", "CF8M">>

extract_material_spec(line) ==
    LET Kept(mat_match, spec) ==
            IF Found(mat_match)
               /\ \E k \in 1..Len(material_words) : StrIn(material_words[k], StrUpper(spec))
            THEN spec
            ELSE ""
        OfMatch(mat_match) == Kept(mat_match, StrStrip(Group1(line, mat_match)))
    IN  OfMatch(ReSearch(ReParenthesized, line))

\* a process_line without the `if not codes: return None` test
process_line2_any(line, doc_type) ==
    LET Item(codes, qp) ==
            << [ item_number |-> "", codes |-> codes, marc_code |-> "",
                 material_spec |-> extract_material_spec(line),
                 quantity |-> qp[1], price |-> qp[2],
                 source_doc |-> doc_type, original_line |-> line,
                 doc_type |-> doc_type ] >>
    IN  IF Len(StrStrip(line)) = 0 THEN None
        ELSE Item(extract_codes_from_line2(line), extract_quantity_and_price2(line))

\* ValveProcessor.process_line
process_line2(line, doc_type) ==
    LET Item(codes, qp, marc_match) ==
            IF codes = {} THEN None
            ELSE << [ item_number |-> "",
                      codes |-> codes,
                      marc_code |-> IF Found(marc_match) THEN Group1(line, marc_match) ELSE "",
                      material_spec |-> extract_material_spec(line),
                      quantity |-> qp[1],
                      price |-> qp[2],
                      source_doc |-> doc_type,
                      original_line |-> line,
                      doc_type |-> doc_type ] >>
    IN  IF Len(StrStrip(line)) = 0 THEN None
        ELSE Item(extract_codes_from_line2(line),
                  extract_quantity_and_price2(line),
                  ReSearch(ReMarcCode, line))

RECURSIVE LineItems2(_, _)
\* the inner loop of process_pdf over the lines of one page
LineItems2(lines, doc_type) ==
    IF Len(lines) = 0 THEN << >>
    ELSE process_line2(StrStrip(lines[1]), doc_type) \o LineItems2(Tail(lines), doc_type)

RECURSIVE PageItems2(_, _)
PageItems2(pages, doc_type) ==
    IF Len(pages) = 0 THEN << >>
    ELSE LineItems2(StrSplit(pages[1], "\n"), doc_type) \o PageItems2(Tail(pages), doc_type)

\* the doc_type of process_pdf, from the upper-cased base name of the file
doc_type2(filename) ==
    IF StrIn("PURCHASE_ORDER", StrUpper(filename)) THEN "PO" ELSE "SO"

\* ValveProcessor.process_pdf: an exception of fitz gives []
process_pdf2(filename, pdf) ==
    IF ~pdf.readable THEN << >> ELSE PageItems2(pdf.pages, doc_type2(filename))

(***************************************************************************)
(* Matching                                                                *)
(***************************************************************************)
\* m[key] on a defaultdict(set): reading an absent key inserts it
DictIndex(m, key) ==
    [val |-> IF key \in DOMAIN m THEN m[key] ELSE {},
     map |-> IF key \in DOMAIN m THEN m ELSE m @@ (key :> {})]

\* dict.get(key, set()) on code_mappings: the value, and the dict afterwards
DictGet(m, key) ==
    [val |-> IF key \in DOMAIN m THEN m[key] ELSE {}, map |-> m]

\* the 4-digit fragments of a set of codes: re.search(r'\d{4}', code).group(0)
Numbers(codes) ==
    {Group0(c, ReSearch(ReFourDigits, c)) : c \in {d \in codes : Found(ReSearch(ReFourDigits, d))}}

RECURSIVE MappedLoop(_, _, _)
\* "Check mapped codes": the loop over the PO codes still to visit (a Python
\* set iterates in an arbitrary order); gives the outcome and the dict afterwards
MappedLoop(todo, so_codes, m) ==
    LET Normalized(po_code, g1, norm_po_code, g2) ==
            IF g2.val \cap so_codes # {} THEN [matched |-> TRUE, map |-> g2.map]
            ELSE MappedLoop(todo \ {po_code}, so_codes, g2.map)
        Mapped(po_code, g1, norm_po_code) ==
            IF g1.val \cap so_codes # {} THEN [matched |-> TRUE, map |-> g1.map]
            ELSE IF norm_po_code # po_code
            THEN Normalized(po_code, g1, norm_po_code, DictGet(g1.map, norm_po_code))
            ELSE MappedLoop(todo \ {po_code}, so_codes, g1.map)
        Visit(po_code) == Mapped(po_code, DictGet(m, po_code), normalize_code(po_code))
    IN  IF todo = {} THEN [matched |-> FALSE, map |-> m]
        ELSE Visit(CHOOSE c \in todo : TRUE)

\* DocumentProcessor.items_match: the branch that returned True names the tier
items_match(po_item, so_item, m) ==
    IF po_item.item_codes \cap so_item.item_codes # {}
    THEN [matched |-> TRUE, tier |-> "Direct", map |-> m]
    ELSE IF Numbers(po_item.item_codes) \cap Numbers(so_item.item_codes) # {}
    THEN [matched |-> TRUE, tier |-> "Numeric", map |-> m]
    ELSE LET Outcome(r) ==
                 [matched |-> r.matched, tier |-> IF r.matched THEN "Alias" ELSE "None",
                  map |-> r.map]
         IN  Outcome(MappedLoop(po_item.item_codes, so_item.item_codes, m))

RECURSIVE MatchLoop(_, _, _, _)
\* the inner loop of analyze_and_report over so_items from index k: the index
\* of the SO item it breaks at (0: found_match stays False), the tier, the dict
MatchLoop(po_item, so_items, k, m) ==
    LET Step(r) ==
            IF r.matched THEN [so |-> k, tier |-> r.tier, map |-> r.map]
            ELSE MatchLoop(po_item, so_items, k + 1, r.map)
    IN  IF k > Len(so_items) THEN [so |-> 0, tier |-> "None", map |-> m]
        ELSE Step(items_match(po_item, so_items[k], m))

\* the "Fuzzy match" loops of match_items for one SO item
FuzzyMatch(po_codes, so_codes) ==
    \E po_code \in po_codes, so_code \in so_codes :
        StrIn("MR", po_code) /\ StrReplace(po_code, " MR", "") = so_code

RECURSIVE MatchItemsFrom(_, _, _)
\* ValveProcessor.match_items from index k: the index of the SO item returned
\* (0 for None), the tier and the score
MatchItemsFrom(po_item, so_items, k) ==
    IF k > Len(so_items) THEN [so |-> 0, tier |-> "None", score |-> 0]
    ELSE IF po_item.codes \cap so_items[k].codes # {}
    THEN [so |-> k, tier |-> "Direct", score |-> 100]
    ELSE IF FuzzyMatch(po_item.codes, so_items[k].codes)
    THEN [so |-> k, tier |-> "Fuzzy", score |-> 95]
    ELSE MatchItemsFrom(po_item, so_items, k + 1)

match_items(po_item, so_items) == MatchItemsFrom(po_item, so_items, 1)

(***************************************************************************)
(* DocumentProcessor.load_erp_codes                                        *)
(***************************************************************************)
\* defaultdict(set): m[key].add(value)
DictAdd(m, key, value) ==
    IF key \in DOMAIN m THEN [m EXCEPT ![key] = @ \cup {value}]
    ELSE m @@ (key :> {value})

\* a row is <<str(row['acode']), str(row['cpartno'])>>
RowSkipped(row) ==
    LET acode == StrStrip(row[1])
        cpartno == StrStrip(row[2])
    IN  \/ Len(acode) = 0 \/ Len(cpartno) = 0
        \/ StrLower(acode) = "nan" \/ StrLower(cpartno) = "nan"

\* a loop body that records a pair in one direction only
LoadRowOneWay(m, row) ==
    IF RowSkipped(row) THEN m ELSE DictAdd(m, StrStrip(row[1]), StrStrip(row[2]))

\* a loop body whose normalized keys point at their own raw form
LoadRowSelfLink(m, row) ==
    LET CrossLink(d, norm, code) == IF norm # code THEN DictAdd(d, norm, code) ELSE d
        Add(acode, cpartno) ==
            CrossLink(CrossLink(DictAdd(DictAdd(m, acode, cpartno), cpartno, acode),
                                normalize_code(acode), acode),
                      normalize_code(cpartno), cpartno)
    IN  IF RowSkipped(row) THEN m ELSE Add(StrStrip(row[1]), StrStrip(row[2]))

\* the body of the loop over df.iterrows()
LoadRow(m, row) ==
    LET CrossLink(d, norm, code, other) ==
            IF norm # code THEN DictAdd(d, norm, other) ELSE d
        Add(acode, cpartno, norm_acode, norm_cpartno) ==
            CrossLink(CrossLink(DictAdd(DictAdd(m, acode, cpartno), cpartno, acode),
                                norm_acode, acode, cpartno),
                      norm_cpartno, cpartno, acode)
        Cells(acode, cpartno) ==
            Add(acode, cpartno, normalize_code(acode), normalize_code(cpartno))
    IN  IF RowSkipped(row) THEN m ELSE Cells(StrStrip(row[1]), StrStrip(row[2]))

RECURSIVE LoadRows(_, _)
LoadRows(m, rows) ==
    IF Len(rows) = 0 THEN m ELSE LoadRows(LoadRow(m, rows[1]), Tail(rows))

required_columns == {"acode", "cpartno"}

\* load_erp_codes raises when the file cannot be read or a column is missing
LoadFails(catalog) == ~catalog.readable \/ ~(required_columns \subseteq catalog.columns)

EmptyDict == [k \in {} |-> {}]


(***************************************************************************)
(* Inputs: the catalog, the folder and the PDFs                            *)
(***************************************************************************)
MaxRows == 2
MaxPages == 2

SeqsUpTo(S, n) == UNION {[1..k -> S] : k \in 0..n}

\* catalog rows: aliases, codes that normalize_code changes, padded and
\* lower-case cells, a NaN cell and a blank cell
RowSet ==
    { <<"VLV-100", "X100">>,
      <<"valve x100", "VLV-100">>,
      <<"CH-1234 MR", "9123456">>,
      <<" 9123456 ", "9765432">>,
      <<"NaN", "X100">>,
      <<"X100 [D]", "  ">> }

Catalogs ==
    {[readable |-> TRUE, columns |-> required_columns, rows |-> rows] :
        rows \in SeqsUpTo(RowSet, MaxRows)}
    \cup {[readable |-> FALSE, columns |-> {}, rows |-> << >>],
          [readable |-> TRUE, columns |-> {"acode"}, rows |-> << >>]}

\* the catalogs of the end-to-end runs
MainCatalogs ==
    {[readable |-> TRUE, columns |-> required_columns, rows |-> rows] :
        rows \in { << >>, << <<" 9123456 ", "9765432">>, <<"CH-1234 MR", "9123456">> >> }}
    \cup {[readable |-> FALSE, columns |-> {}, rows |-> << >>],
          \* a sheet without the cpartno column: its rows have the acode cell only
          [readable |-> TRUE, columns |-> {"acode"}, rows |-> << <<"VLV-100">> >>]}

\* the keys looked up in the table once it is built
LookupKeys == {"VLV-100", "X100", "CH-1234", "9123456", "VALVE X100", "ZZZ"}

PoFile == "PURCHASE_ORDER_1487633.pdf"
SoFile == "SO_00240030.pdf"
OtherFile == "readme.txt"

PoPages ==
    { "CH-1234 MR QTY 10 USD 250.00 (ASTM A216 GR WCB)",
      "CH-1234 MR QTY 12 USD 2,000,000.00",
      "9123456 5 NOS $ 1,250.50",
      "Page 1 of 2 CH-1234" }

SoPages ==
    { "CH-1234 Quantity 10 USD 250.00 (ASTM A216 GR WCB)",
      "DP 1234 MM #12 M-5 Quantity 10 UM Amount USD 250.00 (ASTM A216 GR WCB)",
      "9765432 5 NOS $ 1,250.50" }

Pdfs(pages) ==
    {[readable |-> TRUE, pages |-> ps] : ps \in SeqsUpTo(pages, MaxPages)}
    \cup {[readable |-> FALSE, pages |-> << >>]}

\* what a file of the folder can hold
PdfsOf(filename) ==
    IF filename = PoFile THEN Pdfs(PoPages)
    ELSE IF filename = SoFile THEN Pdfs(SoPages)
    ELSE {[readable |-> FALSE, pages |-> << >>]}

Documents ==
    {[filename |-> f, pdf |-> p] : f \in {PoFile}, p \in PdfsOf(PoFile)}
    \cup {[filename |-> f, pdf |-> p] : f \in {SoFile}, p \in PdfsOf(SoFile)}
    \cup {[filename |-> f, pdf |-> p] : f \in {OtherFile}, p \in PdfsOf(OtherFile)}

\* os.listdir: the files of the folder, each once, in any order
Listings ==
    {l \in SeqsUpTo({PoFile, SoFile, OtherFile}, 3) :
        \A i, j \in 1..Len(l) : i # j => l[i] # l[j]}

NoFile == [filename |-> "", pdf |-> [readable |-> FALSE, pages |-> << >>], added |-> 0]
NoAnalysis == [phase |-> "none"]

\* filename.endswith('.pdf')
EndsWithPdf(filename) ==
    Len(filename) >= 4 /\ SubSeq(filename, Len(filename) - 3, Len(filename)) = ".pdf"

(***************************************************************************)
(* main() of src/script.py: DocumentProcessor                              *)
(***************************************************************************)
\* DocumentProcessor.__init__, which ends with load_erp_codes()
Construct(folder_exists, excel_exists, catalog) ==
    /\ prog = "DocumentProcessor" /\ pc = "start"
    /\ IF ~folder_exists \/ ~excel_exists \/ LoadFails(catalog)
       THEN /\ pc' = "failed"
            /\ UNCHANGED <<code_mappings, erp_data>>
       ELSE /\ pc' = "listdir"
            /\ code_mappings' = LoadRows(EmptyDict, catalog.rows)
            /\ erp_data' = catalog.rows
    /\ UNCHANGED <<prog, files, processed_files, items, cur, analysis, arg, ret>>

\* process_pdfs up to the loop: processed_files = 0 and os.listdir
ListFolder(listing) ==
    /\ pc = "listdir"
    /\ files' = listing
    /\ processed_files' = 0
    /\ pc' = "files"
    /\ UNCHANGED <<prog, code_mappings, erp_data, items, cur, analysis, arg, ret>>

\* the try block of the loop of process_pdfs for one .pdf file: its locals
ProcessedPdf(filename, pdf) ==
    LET Locals(content, doc_type, items_found) ==
            [ content |-> content,
              doc_type |-> doc_type,
              items_found |-> items_found,
              unique_items |-> UniqueItems(items_found, {}) ]
        Typed(content, doc_type) ==
            Locals(content, doc_type, ItemsFound(StrSplit(content, "\n"), doc_type))
        Read(content) == Typed(content, determine_doc_type(filename, content))
    IN  Read(extract_text_from_pdf(pdf))

\* ProcessedPdf over the files the folder can hold, worked out once
PdfTable == [d \in Documents |-> ProcessedPdf(d.filename, d.pdf)] @@ << >>

\* one turn of the loop of process_pdfs, for the next file of the listing
ProcessPdf(pdf) ==
    /\ prog = "DocumentProcessor" /\ pc = "files" /\ Len(files) > 0
    /\ [filename |-> Head(files), pdf |-> pdf] \in Documents
    /\ \E filename \in {Head(files)} :
       \E done \in {PdfTable[[filename |-> filename, pdf |-> pdf]]} :
           /\ files' = Tail(files)
           /\ IF ~EndsWithPdf(StrLower(filename)) \/ Len(done.content) = 0
              THEN /\ UNCHANGED <<items, processed_files>>
                   /\ cur' = [filename |-> filename, pdf |-> pdf, added |-> 0]
              ELSE /\ items' = items \o done.unique_items
                   /\ processed_files' = processed_files + 1
                   /\ cur' = [filename |-> filename, pdf |-> pdf,
                              added |-> Len(done.unique_items)]
    /\ UNCHANGED <<prog, pc, code_mappings, erp_data, analysis, arg, ret>>

Abs(x) == IF x < 0 THEN 0 - x ELSE x

\* pairs of prices (in hundredths) one cent apart whose difference as doubles
\* comes out above the double 0.01
RoundedAboveCent == {<<10001, 10000>>, <<10000, 10001>>}

\* abs(po_item.price - so_item.price) > 0.01
PriceDiffers(po_price, so_price) ==
    IF Abs(po_price - so_price) = 1 THEN <<po_price, so_price>> \in RoundedAboveCent
    ELSE Abs(po_price - so_price) > 1

\* pairs of prices one cent apart whose difference as doubles is the double 0.01
RoundedToCent == {<<1, 0>>, <<0, 1>>}

\* abs(po_item.price - matched_item.price) < 0.01
PriceMatches(po_price, so_price) ==
    IF Abs(po_price - so_price) = 1
    THEN <<po_price, so_price>> \notin RoundedAboveCent \cup RoundedToCent
    ELSE Abs(po_price - so_price) < 1

\* analyze_and_report up to its loop over po_items; process_pdfs has returned
StartAnalysis ==
    /\ prog = "DocumentProcessor" /\ pc = "files" /\ Len(files) = 0
    /\ pc' = "analyze"
    /\ analysis' =
          [ phase |-> "running",
            total_po_items |-> 0,
            matched_items |-> 0,
            mismatched_items |-> 0,
            quantity_mismatches |-> << >>,
            price_mismatches |-> << >>,
            material_spec_mismatches |-> << >>,
            unmatched_items |-> << >>,
            po_items |-> SelectSeq(items, LAMBDA it : it.source_doc = "PO"),
            so_items |-> SelectSeq(items, LAMBDA it : it.source_doc = "SO"),
            po |-> 0, so |-> 0, tier |-> "None" ]
    /\ UNCHANGED <<prog, code_mappings, erp_data, files, processed_files, items, cur,
                   arg, ret>>

\* one turn of the loop over po_items when the loop over so_items goes on
\* after a match: matched_items counts every SO item that matches
AnalyzePoItemNoBreak(code) ==
    /\ prog = "DocumentProcessor" /\ pc = "analyze"
    /\ analysis.po < Len(analysis.po_items)
    /\ \E po_item \in {analysis.po_items[analysis.po + 1]} :
       \E r \in {MatchLoop(po_item, analysis.so_items, 1, code_mappings)} :
       \E n \in {Cardinality({k \in 1..Len(analysis.so_items) :
                      items_match(po_item, analysis.so_items[k], code_mappings).matched})} :
       LET a1 == [analysis EXCEPT !.total_po_items = @ + 1,
                                  !.po = @ + 1, !.so = r.so, !.tier = r.tier]
       IN  /\ code \in po_item.item_codes
           /\ code_mappings' = r.map
           /\ IF r.so # 0
              THEN analysis' = [a1 EXCEPT !.matched_items = @ + n]
              ELSE analysis' =
                     [a1 EXCEPT
                        !.mismatched_items = @ + 1,
                        !.unmatched_items =
                            Append(@, <<code,
                                        IF po_item.material_spec # ""
                                        THEN po_item.material_spec
                                        ELSE "No material spec">>)]
    /\ UNCHANGED <<prog, pc, erp_data, files, processed_files, items, cur, arg, ret>>

\* one turn of the loop over po_items; code is next(iter(po_item.item_codes)),
\* any element of the set
AnalyzePoItem(code) ==
    /\ prog = "DocumentProcessor" /\ pc = "analyze"
    /\ analysis.po < Len(analysis.po_items)
    /\ \E po_item \in {analysis.po_items[analysis.po + 1]} :
       \E r \in {MatchLoop(po_item, analysis.so_items, 1, code_mappings)} :
       LET so_item == analysis.so_items[r.so]
           a1 == [analysis EXCEPT !.total_po_items = @ + 1,
                                  !.po = @ + 1, !.so = r.so, !.tier = r.tier]
       IN  /\ code \in po_item.item_codes
           /\ code_mappings' = r.map
           /\ IF r.so # 0
              THEN analysis' =
                     [a1 EXCEPT
                        !.matched_items = @ + 1,
                        !.quantity_mismatches =
                            IF po_item.quantity # so_item.quantity
                            THEN Append(@, <<code, po_item.quantity, so_item.quantity>>)
                            ELSE @,
                        !.price_mismatches =
                            IF PriceDiffers(po_item.price, so_item.price)
                            THEN Append(@, <<code, po_item.price, so_item.price>>)
                            ELSE @,
                        !.material_spec_mismatches =
                            IF po_item.material_spec # so_item.material_spec
                            THEN Append(@, <<code, po_item.material_spec,
                                             so_item.material_spec>>)
                            ELSE @]
              ELSE analysis' =
                     [a1 EXCEPT
                        !.mismatched_items = @ + 1,
                        !.unmatched_items =
                            Append(@, <<code,
                                        IF po_item.material_spec # ""
                                        THEN po_item.material_spec
                                        ELSE "No material spec">>)]
    /\ UNCHANGED <<prog, pc, erp_data, files, processed_files, items, cur, arg, ret>>

\* the loop is over: the report is put together and written
Report ==
    /\ prog = "DocumentProcessor" /\ pc = "analyze"
    /\ analysis.po = Len(analysis.po_items)
    /\ pc' = "done"
    /\ analysis' = [analysis EXCEPT !.phase = "reported"]
    /\ UNCHANGED <<prog, code_mappings, erp_data, files, processed_files, items, cur,
                   arg, ret>>

(***************************************************************************)
(* main() of src/script2.py: ValveProcessor.process_all                    *)
(***************************************************************************)
\* ValveProcessor.__init__ and load_erp_codes, the first call of process_all
Construct2(catalog) ==
    /\ prog = "ValveProcessor" /\ pc = "start"
    /\ IF ~catalog.readable
       THEN pc' = "failed" /\ UNCHANGED erp_data
       ELSE pc' = "listdir" /\ erp_data' = catalog.rows
    /\ UNCHANGED <<prog, code_mappings, files, processed_files, items, cur, analysis,
                   arg, ret>>

\* process_pdf over the files the folder can hold, worked out once
PdfTable2 == [d \in Documents |-> process_pdf2(d.filename, d.pdf)] @@ << >>

\* process_all over a process_pdf without its try/except: an exception of
\* fitz ends the run
ProcessPdf2Unguarded(pdf) ==
    /\ prog = "ValveProcessor" /\ pc = "files" /\ Len(files) > 0
    /\ [filename |-> Head(files), pdf |-> pdf] \in Documents
    /\ \E filename \in {Head(files)} :
       \E new_items \in {PdfTable2[[filename |-> filename, pdf |-> pdf]]} :
           /\ files' = Tail(files)
           /\ cur' = [filename |-> filename, pdf |-> pdf,
                      added |-> IF EndsWithPdf(filename) THEN Len(new_items) ELSE 0]
           /\ items' = (IF EndsWithPdf(filename) THEN items \o new_items ELSE items)
           /\ pc' = (IF EndsWithPdf(filename) /\ ~pdf.readable THEN "failed" ELSE pc)
    /\ UNCHANGED <<prog, code_mappings, erp_data, processed_files, analysis, arg, ret>>

\* one turn of the loop of process_all over os.listdir
ProcessPdf2(pdf) ==
    /\ prog = "ValveProcessor" /\ pc = "files" /\ Len(files) > 0
    /\ [filename |-> Head(files), pdf |-> pdf] \in Documents
    /\ \E filename \in {Head(files)} :
       \E new_items \in {PdfTable2[[filename |-> filename, pdf |-> pdf]]} :
           /\ files' = Tail(files)
           /\ IF ~EndsWithPdf(filename)
              THEN /\ UNCHANGED items
                   /\ cur' = [filename |-> filename, pdf |-> pdf, added |-> 0]
              ELSE /\ items' = items \o new_items
                   /\ cur' = [filename |-> filename, pdf |-> pdf, added |-> Len(new_items)]
    /\ UNCHANGED <<prog, pc, code_mappings, erp_data, processed_files, analysis, arg, ret>>

\* `if self.items:` and analyze_matches up to its loop; with no item
\* process_all returns at once
StartAnalysis2 ==
    /\ prog = "ValveProcessor" /\ pc = "files" /\ Len(files) = 0
    /\ IF Len(items) = 0
       THEN pc' = "done" /\ UNCHANGED analysis
       ELSE /\ pc' = "analyze"
            /\ analysis' =
                  [ phase |-> "running",
                    po_codes |-> << >>,
                    so_matches |-> << >>,
                    match_scores |-> << >>,
                    quantity_matches |-> << >>,
                    price_matches |-> << >>,
                    material_matches |-> << >>,
                    po_items |-> SelectSeq(items, LAMBDA it : it.doc_type = "PO"),
                    so_items |-> SelectSeq(items, LAMBDA it : it.doc_type = "SO"),
                    po |-> 0, so |-> 0, tier |-> "None", summary |-> None ]
    /\ UNCHANGED <<prog, code_mappings, erp_data, files, processed_files, items, cur,
                   arg, ret>>

\* one turn of the loop of analyze_matches; po_code and so_code are the
\* next(iter(...)) of the two code sets
AnalyzePoItem2(po_code, so_code) ==
    /\ prog = "ValveProcessor" /\ pc = "analyze"
    /\ analysis.po < Len(analysis.po_items)
    /\ \E po_item \in {analysis.po_items[analysis.po + 1]} :
       \E r \in {match_items(po_item, analysis.so_items)} :
       LET matched_item == analysis.so_items[r.so]
           a1 == [analysis EXCEPT !.po = @ + 1, !.so = r.so, !.tier = r.tier,
                                  !.po_codes = Append(@, po_code),
                                  !.match_scores = Append(@, r.score)]
       IN  /\ po_code \in po_item.codes
           /\ IF r.so # 0
              THEN /\ so_code \in matched_item.codes
                   /\ analysis' =
                        [a1 EXCEPT
                           !.so_matches = Append(@, so_code),
                           !.quantity_matches =
                               Append(@, po_item.quantity = matched_item.quantity),
                           !.price_matches =
                               Append(@, PriceMatches(po_item.price, matched_item.price)),
                           !.material_matches =
                               Append(@, po_item.material_spec = matched_item.material_spec)]
              ELSE /\ so_code = "No Match"
                   /\ analysis' =
                        [a1 EXCEPT
                           !.so_matches = Append(@, "No Match"),
                           !.quantity_matches = Append(@, FALSE),
                           !.price_matches = Append(@, FALSE),
                           !.material_matches = Append(@, FALSE)]
    /\ UNCHANGED <<prog, pc, code_mappings, erp_data, files, processed_files, items, cur,
                   arg, ret>>

\* how many entries of a column of analysis_df are in a set of values
CountIn(column, values) == Cardinality({k \in 1..Len(column) : column[k] \in values})

\* summary_data of generate_excel_report: the Value of each Metric
Summary2(a, all_items) ==
    [ total_po_items |-> Len(SelectSeq(all_items, LAMBDA i : i.doc_type = "PO")),
      total_so_items |-> Len(SelectSeq(all_items, LAMBDA i : i.doc_type = "SO")),
      matched_items |-> Cardinality({k \in 1..Len(a.match_scores) : a.match_scores[k] >= 80}),
      unmatched_items |-> Cardinality({k \in 1..Len(a.match_scores) : a.match_scores[k] < 80}),
      quantity_mismatches |-> CountIn(a.quantity_matches, {FALSE}),
      material_spec_mismatches |-> CountIn(a.material_matches, {FALSE}) ]

\* generate_excel_report: the Summary sheet, then generate_insights, whose
\* match rate divides by len(analysis_df) and raises ZeroDivisionError when
\* there is no PO item; process_all raises it again
Report2 ==
    /\ prog = "ValveProcessor" /\ pc = "analyze"
    /\ analysis.po = Len(analysis.po_items)
    /\ IF Len(analysis.match_scores) = 0
       THEN /\ pc' = "raised"
            /\ analysis' = [analysis EXCEPT !.summary = Summary2(analysis, items)]
       ELSE /\ pc' = "done"
            /\ analysis' = [analysis EXCEPT !.phase = "reported",
                                            !.summary = Summary2(analysis, items)]
    /\ UNCHANGED <<prog, code_mappings, erp_data, files, processed_files, items, cur,
                   arg, ret>>

AllPdfs == {d.pdf : d \in Documents}

AllCodes ==
    UNION {extract_codes_from_line(p) \cup extract_codes_from_line2(p) :
               p \in PoPages \cup SoPages}

\* the fields of a processor that has just been constructed
Fresh ==
    /\ code_mappings = EmptyDict
    /\ erp_data = << >>
    /\ files = << >>
    /\ processed_files = 0
    /\ items = << >>
    /\ cur = NoFile
    /\ analysis = NoAnalysis

Init ==
    /\ prog \in {"DocumentProcessor", "ValveProcessor"}
    /\ pc = "start"
    /\ Fresh
    /\ arg = ""
    /\ ret = << >>

Next ==
    \/ \E folder_exists, excel_exists \in BOOLEAN, catalog \in MainCatalogs :
           Construct(folder_exists, excel_exists, catalog)
    \/ \E catalog \in MainCatalogs : Construct2(catalog)
    \/ \E listing \in Listings : ListFolder(listing)
    \/ \E pdf \in AllPdfs : ProcessPdf(pdf)
    \/ \E pdf \in AllPdfs : ProcessPdf2(pdf)
    \/ StartAnalysis
    \/ \E code \in AllCodes : AnalyzePoItem(code)
    \/ Report
    \/ StartAnalysis2
    \/ \E po_code \in AllCodes, so_code \in AllCodes \cup {"No Match"} :
           AnalyzePoItem2(po_code, so_code)
    \/ Report2

Spec == Init /\ [][Next]_vars

(***************************************************************************)
(* The alias table on its own: load_erp_codes over any catalog of up to    *)
(* MaxRows rows, then lookups as items_match makes them.                   *)
(***************************************************************************)
\* mapped_codes = self.code_mappings.get(key, set())
Lookup(key) ==
    /\ prog = "DocumentProcessor" /\ pc = "listdir"
    /\ \E g \in {DictGet(code_mappings, key)} :
           /\ arg' = key
           /\ ret' = g.val
           /\ code_mappings' = g.map
    /\ UNCHANGED <<prog, pc, erp_data, files, processed_files, items, cur, analysis>>

InitAlias ==
    /\ prog = "DocumentProcessor"
    /\ pc = "start"
    /\ Fresh
    /\ arg = ""
    /\ ret = {}

NextAlias ==
    \/ \E folder_exists, excel_exists \in BOOLEAN, catalog \in Catalogs :
           Construct(folder_exists, excel_exists, catalog)
    \/ \E key \in LookupKeys : Lookup(key)

SpecAlias == InitAlias /\ [][NextAlias]_vars

(***************************************************************************)
(* The pure functions on their own: an input is drawn, a function is       *)
(* applied to it, ret collects what it returned.                           *)
(***************************************************************************)
\* how many times in a row normalize_code is applied
MaxApply == 2

\* codes with leading qualifier words and stacked trailing tokens
CodePrefixes == {"", "VALVE ", "check ", "VALVE CHECK "}
CodeCores == {"X100", "CH-1234", "dp 12  34"}
CodeSuffixes == {"", " MR", " MR MR", "MR", " [D]", " MR [D]", "[D][D]"}
CodeInputs == {p \o c \o s : p \in CodePrefixes, c \in CodeCores, s \in CodeSuffixes}

\* document lines: an identifier, a quantity and a price, each in several forms
LineCodes ==
    {"CH-1234", "CH-1234 MR", "CHL-1234", "CHH-5678", "chs-0001", "9123456",
     "DP 1234 MM #12 M-5", "Page 1 of 2 CH-1234", "no identifier"}
LineQtys == {"", " QTY 10", " 5 NOS", " QTY: 15000 7 PCS", " QTY: 15000", " QTY: 25"}
LinePrices == {"", " USD 250.00", " USD 2,000,000.00", " USD 0.00 $ 4", " $ 1,250.50"}
LineInputs == {c \o q \o p : c \in LineCodes, q \in LineQtys, p \in LinePrices}

\* normalize_code applied to the input, or again to its own result
Normalize ==
    /\ pc \in {"input", "normalize_code"}
    /\ arg \in CodeInputs
    /\ Len(ret) < MaxApply
    /\ ret' = Append(ret, normalize_code(IF Len(ret) = 0 THEN arg ELSE ret[Len(ret)]))
    /\ pc' = "normalize_code"
    /\ UNCHANGED <<prog, code_mappings, erp_data, files, processed_files, items, cur,
                   analysis, arg>>

\* one of the line functions applied to the input
Apply(name, result) ==
    /\ pc = "input"
    /\ arg \in LineInputs
    /\ ret' = <<result>>
    /\ pc' = name
    /\ UNCHANGED <<prog, code_mappings, erp_data, files, processed_files, items, cur,
                   analysis, arg>>

ExtractCodes == Apply("extract_codes_from_line", extract_codes_from_line(arg))
ExtractCodes2 == Apply("extract_codes_from_line2", extract_codes_from_line2(arg))
QuantityAndPrice == Apply("extract_quantity_and_price", extract_quantity_and_price(arg))
QuantityAndPrice2 == Apply("extract_quantity_and_price2", extract_quantity_and_price2(arg))

InitFn ==
    /\ prog = "functions"
    /\ pc = "input"
    /\ Fresh
    /\ arg \in CodeInputs \cup LineInputs
    /\ ret = << >>

NextFn ==
    \/ Normalize
    \/ ExtractCodes
    \/ ExtractCodes2
    \/ QuantityAndPrice
    \/ QuantityAndPrice2

SpecFn == InitFn /\ [][NextFn]_vars

(***************************************************************************)
(* Vocabulary of the properties: the tiers of the matching policy, the     *)
(* PO item analysed last, the items a document added.                      *)
(***************************************************************************)
\* the identifier set of an item of either processor
ItemCodes(item) == IF prog = "DocumentProcessor" THEN item.item_codes ELSE item.codes

\* lookup(code): the alias set, empty when the code is absent
AliasesOf(code) == DictGet(code_mappings, code).val

TierDirect(po, so) == po \cap so # {}
TierNumeric(po, so) == Numbers(po) \cap Numbers(so) # {}
TierAlias(po, so) ==
    \E c \in po : AliasesOf(c) \cap so # {} \/ AliasesOf(normalize_code(c)) \cap so # {}
TierFuzzy(po, so) == FuzzyMatch(po, so)

SatisfiesTier(po, so) ==
    TierDirect(po, so) \/ TierNumeric(po, so) \/ TierAlias(po, so) \/ TierFuzzy(po, so)

\* the first tier, in the order Direct, Numeric, Alias, Fuzzy, that succeeds
FirstTier(po, so) ==
    IF TierDirect(po, so) THEN "Direct"
    ELSE IF TierNumeric(po, so) THEN "Numeric"
    ELSE IF TierAlias(po, so) THEN "Alias"
    ELSE IF TierFuzzy(po, so) THEN "Fuzzy"
    ELSE "None"

\* the analyzer has matched at least one PO item
Analysed == analysis.phase # "none" /\ analysis.po > 0
\* the identifiers of the PO item matched last and of the k-th SO item
LastPoCodes == ItemCodes(analysis.po_items[analysis.po])
SoCodes(k) == ItemCodes(analysis.so_items[k])
\* the SO items, by index, that satisfy some tier for the PO item matched last
Qualifying == {k \in 1..Len(analysis.so_items) : SatisfiesTier(LastPoCodes, SoCodes(k))}

\* the document visited last went through the line loop
WasProcessed ==
    /\ cur.filename # ""
    /\ IF prog = "DocumentProcessor"
       THEN /\ EndsWithPdf(StrLower(cur.filename))
            /\ Len(PdfTable[[filename |-> cur.filename, pdf |-> cur.pdf]].content) > 0
       ELSE EndsWithPdf(cur.filename)
\* the items its lines parsed to, before any duplicate removal
Parsed ==
    IF prog = "DocumentProcessor"
    THEN PdfTable[[filename |-> cur.filename, pdf |-> cur.pdf]].items_found
    ELSE PdfTable2[[filename |-> cur.filename, pdf |-> cur.pdf]]
\* the items it added to the accumulated collection
Added == SubSeq(items, Len(items) - cur.added + 1, Len(items))
\* the first occurrence of every identifier set of found, in order
FirstOccurrences(found) ==
    LET keep == {k \in 1..Len(found) :
                    \A j \in 1..(k - 1) : ItemCodes(found[j]) # ItemCodes(found[k])}
    IN  [i \in 1..Cardinality(keep) |->
            found[CHOOSE k \in keep : Cardinality({j \in keep : j <= k}) = i]]

(***************************************************************************)
(* C1                                                                      *)
(***************************************************************************)
\* C1: the SO item returned for a PO item is the earliest one in input order
\* that satisfies some tier; when none does the result is no item, score 0.
FirstQualifyingReturned ==
    Analysed =>
        /\ analysis.so = (IF Qualifying = {} THEN 0 ELSE Min(Qualifying))
        /\ (prog = "ValveProcessor" /\ Qualifying = {})
               => analysis.match_scores[analysis.po] = 0

(***************************************************************************)
(* C2                                                                      *)
(***************************************************************************)
\* C2: the tier of a match is the first of Direct, Numeric, Alias, Fuzzy the
\* returned candidate satisfies; a Direct candidate with nothing qualifying
\* before it is returned as Direct; a sole candidate sharing only a 4-digit
\* fragment is returned as a match of tier Numeric.
TierPrecedence ==
    Analysed =>
        /\ analysis.so # 0 => analysis.tier = FirstTier(LastPoCodes, SoCodes(analysis.so))
        /\ \A k \in 1..Len(analysis.so_items) :
               (/\ TierDirect(LastPoCodes, SoCodes(k))
                /\ \A j \in 1..(k - 1) : j \notin Qualifying)
               => analysis.so = k /\ analysis.tier = "Direct"
        /\ (Len(analysis.so_items) = 1 /\ FirstTier(LastPoCodes, SoCodes(1)) = "Numeric")
               => analysis.so = 1 /\ analysis.tier = "Numeric"

(***************************************************************************)
(* C3                                                                      *)
(***************************************************************************)
\* a sequence without its j-th element
Without(seq, j) == SubSeq(seq, 1, j - 1) \o SubSeq(seq, j + 1, Len(seq))

\* C3: once the table is built, every catalog row (A, C) that was not skipped
\* has C in lookup(A) and A in lookup(C), and a row that repeats an earlier
\* one leaves the table as it is without it.
RawPairsSymmetric ==
    pc = "listdir" =>
        /\ \A k \in 1..Len(erp_data) :
               ~RowSkipped(erp_data[k]) =>
                   /\ StrStrip(erp_data[k][2]) \in AliasesOf(StrStrip(erp_data[k][1]))
                   /\ StrStrip(erp_data[k][1]) \in AliasesOf(StrStrip(erp_data[k][2]))
        /\ \A i, j \in 1..Len(erp_data) :
               (i < j /\ erp_data[i] = erp_data[j])
               => code_mappings = LoadRows(EmptyDict, Without(erp_data, j))

\* C3 happens: a table built from a catalog that holds one kept row twice
DuplicateRowLoaded ==
    /\ pc = "listdir"
    /\ Len(erp_data) = 2
    /\ erp_data[1] = erp_data[2]
    /\ ~RowSkipped(erp_data[1])

(***************************************************************************)
(* C4                                                                      *)
(***************************************************************************)
\* C4 as stated: for every key K and every V in lookup(K), K is in lookup(V)
WholeTableSymmetric ==
    pc = "listdir" =>
        \A K \in DOMAIN code_mappings :
            \A V \in code_mappings[K] : K \in AliasesOf(V)

\* C4: for every key K and every V in lookup(K), lookup(V) holds K itself or
\* a code that normalizes to K (the keys of normalized forms are cross-links).
SymmetricUpToNormalize ==
    pc = "listdir" =>
        \A K \in DOMAIN code_mappings :
            \A V \in code_mappings[K] :
                \E K2 \in AliasesOf(V) : K2 = K \/ normalize_code(K2) = K

\* C4 happens: the table holds a key that is no cell of the catalog, the
\* normalized form of one
NormalizedKeyLoaded ==
    /\ pc = "listdir"
    /\ \E K \in DOMAIN code_mappings :
           \A k \in 1..Len(erp_data) :
               K \notin {StrStrip(erp_data[k][1]), StrStrip(erp_data[k][2])}

(***************************************************************************)
(* C5                                                                      *)
(***************************************************************************)
\* C5: once the constructor has returned, no step of the processor (listing,
\* parsing, matching, reporting) changes the alias table.
AliasTableReadOnly == [][pc # "start" => code_mappings' = code_mappings]_vars

\* C5 happens: against a non-empty table a PO item with a code absent from it
\* went through the mapped-codes loop for every SO item
AbsentCodeLookedUp ==
    /\ prog = "DocumentProcessor"
    /\ Analysed
    /\ DOMAIN code_mappings # {}
    /\ Len(analysis.so_items) > 0
    /\ analysis.tier = "None"
    /\ \E c \in LastPoCodes : c \notin DOMAIN code_mappings

(***************************************************************************)
(* C6                                                                      *)
(***************************************************************************)
\* C6: normalize_code applied to its own result gives that result again.
NormalizeIdempotent ==
    (pc = "normalize_code" /\ Len(ret) >= 2) => ret[2] = ret[1]

(***************************************************************************)
(* C7                                                                      *)
(***************************************************************************)
\* the value pattern k captures in the line, in hundredths; -1 when the
\* pattern is not found or its capture is no number
CapturedPrice(pattern, line) ==
    LET Value(price_str) == IF FloatFails(price_str) THEN -1 ELSE CentsOfStr(price_str)
        OfMatch(m) == IF Found(m) THEN Value(StrReplace(Group1(line, m), ",", "")) ELSE -1
    IN  OfMatch(ReSearch(pattern, line))

\* the value of the first pattern whose capture is in range, 0 without one
FirstInRange(patterns, line) ==
    LET Pick(ks) == IF ks = {} THEN 0 ELSE CapturedPrice(patterns[Min(ks)], line)
    IN  Pick({k \in 1..Len(patterns) : PriceInRange(CapturedPrice(patterns[k], line))})

\* C7: the price returned for a line is 0 or strictly between 0 and
\* 1,000,000, and it is the capture of the first pattern that is in range.
PriceWithinBounds ==
    /\ pc = "extract_quantity_and_price" =>
           /\ ret[1][2] = 0 \/ PriceInRange(ret[1][2])
           /\ ret[1][2] = FirstInRange(price_patterns, arg)
    /\ pc = "extract_quantity_and_price2" =>
           /\ ret[1][2] = 0 \/ PriceInRange(ret[1][2])
           /\ ret[1][2] = FirstInRange(price_patterns2, arg)

(***************************************************************************)
(* C8                                                                      *)
(***************************************************************************)
\* C8: the items a document adds to the collection are the first occurrences
\* of the identifier sets of its parsed items, in their order.
DedupWithinDocument ==
    WasProcessed => Added = FirstOccurrences(Parsed)

(***************************************************************************)
(* C9                                                                      *)
(***************************************************************************)
\* C9: every item of the accumulated collection has a non-empty identifier
\* set.
NoEmptyIdentifierSet ==
    \A k \in 1..Len(items) : ItemCodes(items[k]) # {}

\* C9 happens: a document with a line the extractor finds no identifier in
\* was processed, and its other line gave the only item
LineWithoutIdentifierSkipped ==
    /\ WasProcessed
    /\ Len(cur.pdf.pages) = 2
    /\ \E p \in 1..2 : cur.pdf.pages[p] = "Page 1 of 2 CH-1234"
    /\ cur.added = 1

(***************************************************************************)
(* C10                                                                     *)
(***************************************************************************)
\* CH-NNNN, CHL-/CHH-/CHS-NNNN, with or without MR
ReChCode ==
    Cat(<<Bol, Lit("CH"), Opt(Set({"L", "H", "S"})), Lit("-"), Grp(Rep(Digit, 4, 4)),
          Opt(Cat(<<Plus(Space), Lit("MR")>>)), Eol>>)

\* the DP and DPCV identifiers every CH code of a result calls for
DerivedOf(codes) ==
    LET Of(code, m) ==
            IF Found(m)
            THEN {"DP " \o Group1(code, m) \o " MM", "DPCV " \o Group1(code, m) \o " MM"}
            ELSE {}
    IN  UNION {Of(code, ReSearch(ReChCode, code)) : code \in codes}

\* C10: with every CH-prefixed identifier the extractor returns, the result
\* holds 'DP NNNN MM' and 'DPCV NNNN MM' of the same four digits.
ChCodesDerived ==
    pc \in {"extract_codes_from_line", "extract_codes_from_line2"}
        => DerivedOf(ret[1]) \subseteq ret[1]

(***************************************************************************)
(* The analysis on its own: one PO line and one SO line with prices around *)
(* the tolerance have been parsed, the analyzer runs over the two items.   *)
(***************************************************************************)
\* the prices of the two lines: none, and amounts zero, one and two cents apart
TolPrices ==
    {"", " USD 0.01", " USD 100.00", " USD 100.01", " USD 100.02", " USD 250.00",
     " USD 250.01"}
TolPoLines == {"CH-1234 MR QTY 10" \o p : p \in TolPrices}
TolSoLines == {"CH-1234 Quantity 10" \o p : p \in TolPrices}

\* a PDF of one page that holds one line
OneLinePdf(line) == [readable |-> TRUE, pages |-> <<line>>]

\* the items process_pdfs, or process_all, adds for a file with that PDF
ItemsOf(filename, pdf) ==
    IF prog = "DocumentProcessor" THEN ProcessedPdf(filename, pdf).unique_items
    ELSE process_pdf2(filename, pdf)

\* the loop over the folder is over: PoFile with po_line, then SoFile with so_line
Parsed2(po_line, so_line) ==
    /\ items = ItemsOf(PoFile, OneLinePdf(po_line)) \o ItemsOf(SoFile, OneLinePdf(so_line))
    /\ cur = [filename |-> SoFile, pdf |-> OneLinePdf(so_line), added |-> 1]

InitTol ==
    /\ prog \in {"DocumentProcessor", "ValveProcessor"}
    /\ pc = "files"
    /\ code_mappings = EmptyDict
    /\ erp_data = << >>
    /\ files = << >>
    /\ processed_files = (IF prog = "DocumentProcessor" THEN 2 ELSE 0)
    /\ \E po_line \in TolPoLines, so_line \in TolSoLines : Parsed2(po_line, so_line)
    /\ analysis = NoAnalysis
    /\ arg = ""
    /\ ret = << >>

NextTol ==
    \/ StartAnalysis
    \/ \E code \in AllCodes : AnalyzePoItem(code)
    \/ Report
    \/ StartAnalysis2
    \/ \E po_code \in AllCodes, so_code \in AllCodes \cup {"No Match"} :
           AnalyzePoItem2(po_code, so_code)
    \/ Report2

SpecTol == InitTol /\ [][NextTol]_vars

(***************************************************************************)
(* C11                                                                     *)
(***************************************************************************)
\* the PO item was matched: the prices of the pair, PO first
PairPrices(a) == <<a.po_items[a.po].price, a.so_items[a.so].price>>

\* the prices of the pair are within the tolerance: at most one hundredth apart
WithinTolerance(prices) == Abs(prices[1] - prices[2]) <= 1

\* C11: when a PO item is matched, the prices count as equal exactly when
\* they are at most 0.01 apart: DocumentProcessor adds a price discrepancy
\* exactly when they are further apart, ValveProcessor records a price match
\* exactly when they are not.
PriceTolerance ==
    [][(pc = "analyze" /\ analysis'.po = analysis.po + 1 /\ analysis'.so # 0) =>
          IF prog = "DocumentProcessor"
          THEN Len(analysis'.price_mismatches) =
                   Len(analysis.price_mismatches)
                   + (IF WithinTolerance(PairPrices(analysis')) THEN 0 ELSE 1)
          ELSE analysis'.price_matches[analysis'.po] = WithinTolerance(PairPrices(analysis'))]_vars

(***************************************************************************)
(* C12                                                                     *)
(***************************************************************************)
\* no text comes out of the PDF: it cannot be read, or no page holds a line
NoText(pdf) ==
    ~pdf.readable \/ \A p \in 1..Len(pdf.pages) : StrStrip(pdf.pages[p]) = ""

\* C12: while the files of the folder are visited the run never fails; every
\* file of the listing is visited before the loop is left; a document without
\* text adds no item, leaves the accumulated items as they are, and is not
\* counted as processed.
ExtractionFailureSkipped ==
    [][pc = "files" =>
          /\ pc' # "failed"
          /\ pc' # "files" => files = << >>
          /\ files # << >> =>
                /\ files' = Tail(files)
                /\ NoText(cur'.pdf) =>
                       /\ items' = items
                       /\ cur'.added = 0
                       /\ processed_files' = processed_files]_vars

\* C12 happens: a PDF that cannot be read was visited after another document
\* had given items, and a file of the listing is still to come
UnreadableSkipped ==
    /\ pc = "files"
    /\ EndsWithPdf(cur.filename)
    /\ ~cur.pdf.readable
    /\ Len(items) > 0
    /\ Len(files) > 0

(***************************************************************************)
(* C13                                                                     *)
(***************************************************************************)
\* the catalog that was read lacks a code column: a row has fewer than the
\* two cells
CatalogLacksColumn == \E k \in 1..Len(erp_data) : Len(erp_data[k]) < 2

\* nothing of the batch has happened: no file visited, no item, no analysis
NothingProcessed == items = << >> /\ cur = NoFile /\ analysis = NoAnalysis

\* C13: a run that failed on its configuration failed before any document
\* was visited, and with a catalog that lacks a required column the run does
\* not get past construction: no item is parsed and no analysis is made.
ConfigErrorsFatal ==
    /\ pc = "failed" => NothingProcessed
    /\ CatalogLacksColumn => (pc \in {"start", "failed"} /\ NothingProcessed)

(***************************************************************************)
(* The classification on its own: a file name and a content are drawn, the *)
(* document type of either processor is worked out.                        *)
(***************************************************************************)
\* file names with no, one and several markers, in either case
DocNames ==
    {"DSS_PURCHASE_ORDER_1.pdf", "datasheet_po_2.pdf", "Item_1487633_dss.pdf",
     "PURCHASE_ORDER_1487633.pdf", "purchase_order_3.pdf", "po_77.pdf", "x_PO.pdf",
     "order1487633.pdf", "SO_00240030.pdf", "invoice.pdf"}
\* contents with and without a sales order marker
DocContents ==
    {"", "CH-1234 QTY 10", "Sales Order 00240030", "ORDER ACKNOWLEDGMENT",
     "Purchase order 1487633"}

\* determine_doc_type(filename, content)
DetermineDocType ==
    /\ pc = "input"
    /\ arg \in DocNames \X DocContents
    /\ ret' = <<determine_doc_type(arg[1], arg[2])>>
    /\ pc' = "determine_doc_type"
    /\ UNCHANGED <<prog, code_mappings, erp_data, files, processed_files, items, cur,
                   analysis, arg>>

\* the doc_type process_pdf works out for the file
DocType2 ==
    /\ pc = "input"
    /\ arg \in DocNames \X DocContents
    /\ ret' = <<doc_type2(arg[1])>>
    /\ pc' = "process_pdf"
    /\ UNCHANGED <<prog, code_mappings, erp_data, files, processed_files, items, cur,
                   analysis, arg>>

InitType ==
    /\ prog = "functions"
    /\ pc = "input"
    /\ Fresh
    /\ arg \in DocNames \X DocContents
    /\ ret = << >>

NextType == DetermineDocType \/ DocType2

SpecType == InitType /\ [][NextType]_vars

(***************************************************************************)
(* C14                                                                     *)
(***************************************************************************)
\* the file name holds one of the markers, whatever the case of its letters
HasMarker(filename, markers) == \E mk \in markers : StrIn(mk, StrUpper(filename))

\* the type the decision order gives: DataSheet first, then PO, else SO
ClassOf(filename) ==
    IF HasMarker(filename, {"DSS", "DATASHEET"}) THEN "DataSheet"
    ELSE IF HasMarker(filename, {"PURCHASE_ORDER", "PO_", "_PO", "1487633"}) THEN "PO"
    ELSE "SO"

\* C14: the document type of a file is DataSheet when its name holds a
\* datasheet marker, else PO when its name holds a purchase order marker or
\* the PO number, else SO, whatever the content says.
ClassificationOrder ==
    pc \in {"determine_doc_type", "process_pdf"} =>
        /\ ret[1] \in {"DataSheet", "PO", "SO"}
        /\ ret[1] = ClassOf(arg[1])

(***************************************************************************)
(* C15                                                                     *)
(***************************************************************************)
\* the integer a quantity pattern captures in the line; -1 when it is not
\* found
CapturedQty(pattern, line) ==
    LET OfMatch(m) == IF Found(m) THEN IntOfStr(Group1(line, m)) ELSE -1
    IN  OfMatch(ReSearch(pattern, line))

\* the patterns, by index, whose capture is strictly between 0 and 10000
QtysInRange(patterns, line) ==
    {k \in 1..Len(patterns) : QtyInRange(CapturedQty(patterns[k], line))}

\* the capture of the first pattern in range, "1" without one
FirstQtyInRange(patterns, line) ==
    LET Pick(ks) ==
            IF ks = {} THEN "1" ELSE StrOfInt(CapturedQty(patterns[Min(ks)], line))
    IN  Pick(QtysInRange(patterns, line))

\* C15: the quantity returned for a line is the integer captured by the first
\* pattern, in list order, whose capture is strictly between 0 and 10000, and
\* "1" when there is none; it is always in 1..9999.
QuantityFirstInRange ==
    /\ pc = "extract_quantity_and_price" =>
           /\ ret[1][1] = FirstQtyInRange(qty_patterns, arg)
           /\ IntOfStr(ret[1][1]) \in 1..9999
    /\ pc = "extract_quantity_and_price2" =>
           /\ ret[1][1] = FirstQtyInRange(qty_patterns2, arg)
           /\ IntOfStr(ret[1][1]) \in 1..9999

\* C15 happens: the first pattern found in the line captured a value out of
\* range, and the quantity returned is the capture of a later pattern
OutOfRangePassedOver ==
    /\ pc = "extract_quantity_and_price2"
    /\ CapturedQty(qty_patterns2[1], arg) >= 10000
    /\ QtysInRange(qty_patterns2, arg) # {}
    /\ ret[1][1] # "1"

\* ---------------------------------------------------------------------------
\* Aggregate counts

\* the PO items of the collection, by the field each processor keeps the type in
PoItemCount ==
    IF prog = "DocumentProcessor"
    THEN Len(SelectSeq(items, LAMBDA it : it.source_doc = "PO"))
    ELSE Len(SelectSeq(items, LAMBDA it : it.doc_type = "PO"))

\* the rows of analysis_df whose PO item found an SO item
MatchedRows(a) == {k \in 1..Len(a.so_matches) : a.so_matches[k] # "No Match"}

\* C16: during and after the analysis every PO item processed so far is
\* counted once, as matched or as unmatched: total = matched + unmatched
\* after each PO item, and when the loop is over the total is the number of
\* PO items of the collection
CountsConserved ==
    analysis.phase # "none" =>
        IF prog = "DocumentProcessor"
        THEN /\ analysis.total_po_items = analysis.po
             /\ analysis.total_po_items = analysis.matched_items + analysis.mismatched_items
             /\ analysis.phase = "reported" => analysis.total_po_items = PoItemCount
        ELSE /\ Len(analysis.match_scores) = analysis.po
             /\ Len(analysis.so_matches) = analysis.po
             /\ {k \in 1..analysis.po : analysis.match_scores[k] >= 80}
                  = MatchedRows(analysis)
             /\ analysis.summary # None =>
                   /\ analysis.summary.total_po_items = PoItemCount
                   /\ analysis.summary.total_po_items = analysis.po
                   /\ analysis.summary.total_po_items =
                        analysis.summary.matched_items + analysis.summary.unmatched_items
                   /\ analysis.summary.matched_items = Cardinality(MatchedRows(analysis))

\* a report over two PO items that the one SO item both matches
OneSoMatchesTwoPo ==
    /\ analysis.phase = "reported"
    /\ analysis.po = 2 /\ Len(analysis.so_items) = 1
    /\ IF prog = "DocumentProcessor" THEN analysis.matched_items = 2
       ELSE analysis.summary.matched_items = 2

\* C17: a PO item that no SO item matches gives one unmatched-item entry and
\* nothing in the quantity, price or material discrepancy lists or their
\* counts: discrepancies are recorded for matched pairs only, at most one of
\* each kind per PO item
UnmatchedAddsNoDiscrepancy ==
    analysis.phase # "none" =>
        IF prog = "DocumentProcessor"
        THEN /\ Len(analysis.unmatched_items) = analysis.mismatched_items
             /\ Len(analysis.quantity_mismatches) <= analysis.matched_items
             /\ Len(analysis.price_mismatches) <= analysis.matched_items
             /\ Len(analysis.material_spec_mismatches) <= analysis.matched_items
        ELSE analysis.summary # None =>
               /\ analysis.summary.unmatched_items
                    = Cardinality((1..analysis.po) \ MatchedRows(analysis))
               /\ analysis.summary.quantity_mismatches
                    = Cardinality({k \in MatchedRows(analysis) :
                                     ~analysis.quantity_matches[k]})
               /\ analysis.summary.material_spec_mismatches
                    = Cardinality({k \in MatchedRows(analysis) :
                                     ~analysis.material_matches[k]})

====
